---- MODULE Spec2Model ----
(***************************************************************************)
(* Sector-transition orchestrator of filecoin-proofs/src/api/update.rs:    *)
(* encode_into, decode_from, remove_encoded_data and generate_update_proof *)
(* as a state machine over a small file system.  Every `?` of the source   *)
(* is a step that either continues or ends the call with an error.         *)
(***************************************************************************)
EXTENDS Integers, Sequences, FiniteSets, TLC

\* ------------------------------------------------------------------ bounds
\* Raw commitments are 0..MaxCommitment (0 is the all-zero array).
MaxCommitment == 2
\* The sector on disk fills MaxNodes nodes; callers configure that sector
\* size or the next smaller one.
MaxNodes == 2

\* storage_proofs_core::util::NODE_SIZE
NODE_SIZE == 32

\* ------------------------------------------------------ commitment codec
Commitment == 0..MaxCommitment

\* A raw commitment is a domain element unless it is the top value, which
\* stands for the byte arrays that encode no element of the domain.
ValidDomainBytes(b) == b < MaxCommitment

Domain == [fr : {b \in Commitment : ValidDomainBytes(b)}]

\* Domain::try_from_bytes: the validated decoding.
try_from_bytes(b) ==
    IF ValidDomainBytes(b)
    THEN [ok |-> TRUE, val |-> [fr |-> b]]
    ELSE [ok |-> FALSE, val |-> [fr |-> 0]]

\* Domain::into_bytes / Domain::write_bytes: total.
into_bytes(d) == d.fr

\* From<[u8; 32]> (`comm_d_new.into()`): a conversion that validates nothing.
from_commitment(b) == [fr |-> b]

\* ------------------------------------------------------------ file system
SectorKeyCacheDir == "sector_key_cache"
ReplicaCacheDir == "replica_cache"
SealedDir == "sealed_cache"
CacheDirs == {SectorKeyCacheDir, ReplicaCacheDir}
\* SealedDir is where the sector was first sealed: a t_aux file may still
\* record it.
AllDirs == CacheDirs \cup {SealedDir}

\* CacheKey::PAux.to_string(), CacheKey::TAux.to_string()
PAuxKey == "p_aux"
TAuxKey == "t_aux"
\* Path::join
Join(dir, name) == [dir |-> dir, name |-> name]

StagedDataPath == "staged"
SectorKeyPath == "sector_key"
ReplicaPath == "replica"
OutDataPath == "out"
DataPaths == {StagedDataPath, SectorKeyPath, ReplicaPath, OutDataPath}

\* PersistentAux { comm_c, comm_r_last }
PersistentAux == [comm_c : Domain, comm_r_last : Domain]
NoPAux == [comm_c |-> [fr |-> 0], comm_r_last |-> [fr |-> 0]]

\* StoreConfig of one tree: the directory it lives in and the tree it names.
StoreConfig(path, id) == [path |-> path, id |-> id]
\* TemporaryAux { labels, tree_d_config, tree_r_last_config, tree_c_config }
TemporaryAuxAt(dir) ==
    [labels |-> dir,
     tree_d_config |-> StoreConfig(dir, "tree-d"),
     tree_r_last_config |-> StoreConfig(dir, "tree-r-last"),
     tree_c_config |-> StoreConfig(dir, "tree-c")]
TemporaryAux == {TemporaryAuxAt(d) : d \in AllDirs}
NoTAux == TemporaryAuxAt("")

\* The bytes of an aux file: absent, undecodable, or a serialized record.
PAuxFiles ==
    {[st |-> "missing", rec |-> NoPAux], [st |-> "corrupt", rec |-> NoPAux]}
    \cup {[st |-> "ok", rec |-> r] : r \in PersistentAux}
TAuxFiles ==
    {[st |-> "missing", rec |-> NoTAux], [st |-> "corrupt", rec |-> NoTAux]}
    \cup {[st |-> "ok", rec |-> r] : r \in TemporaryAux}

\* Contents of a sector-sized data file.  `d` names the data, `len` is its
\* length in nodes, `mask` the parameters a replica was encoded under.
NoMask == [comm_c |-> 0, comm_sector_key |-> 0, comm_d |-> 0, h |-> 0]
NoFile == [kind |-> "absent", d |-> 0, len |-> 0, mask |-> NoMask]
DataFile(d, len) == [kind |-> "data", d |-> d, len |-> len, mask |-> NoMask]
KeyFile(len) == [kind |-> "key", d |-> 0, len |-> len, mask |-> NoMask]
ReplicaFile(d, len, mask) == [kind |-> "replica", d |-> d, len |-> len, mask |-> mask]
GarbageFile(len) == [kind |-> "garbage", d |-> 0, len |-> len, mask |-> NoMask]

\* -------------------------------------------------------------- PoRepConfig
\* A configuration is fixed by its sector size; the update-proof partition
\* count and the scheme-selection parameter h are looked up from it.
ConfigOfNodes(n) == [sector_size |-> NODE_SIZE * n, partitions |-> n, h |-> n + 1]
PoRepConfig == {ConfigOfNodes(n) : n \in {MaxNodes - 1, MaxNodes}}

\* u64::from(porep_config.sector_size) as usize / NODE_SIZE
NodesCount(cfg) == cfg.sector_size \div NODE_SIZE
\* u64::from(HSelect::from(porep_config)) as usize
HSelectOf(cfg) == cfg.h
\* usize::from(UpdateProofPartitions::from(porep_config))
PartitionsOf(cfg) == cfg.partitions

\* ------------------------------------------------- results and invocations
NoPath == Join("", "")
NoComms == [comm_r |-> 0, comm_r_last |-> 0, comm_d |-> 0]
NoResult == [status |-> "none", kind |-> "", ctx |-> NoPath, comms |-> NoComms, proofs |-> <<>>]
Ok(comms, proofs) ==
    [status |-> "ok", kind |-> "", ctx |-> NoPath, comms |-> comms, proofs |-> proofs]
Err(kind, ctx) ==
    [status |-> "err", kind |-> kind, ctx |-> ctx, comms |-> NoComms, proofs |-> <<>>]

NoDomain == [fr |-> 0]
NoConfig == StoreConfig("", "")
NoCache == [t_aux |-> NoTAux, replica_path |-> ""]

\* What one invocation of an EmptySectorUpdate routine was handed.
NoExt ==
    [routine |-> "", nodes_count |-> 0, h |-> 0, k |-> 0, partition_count |-> 0,
     comm_c |-> NoDomain, comm_sector_key |-> NoDomain, comm_d_new |-> NoDomain,
     comm_r_old |-> NoDomain, comm_r_new |-> NoDomain,
     t_aux_cache |-> NoCache, tree_d_new_config |-> NoConfig,
     tree_r_new_config |-> NoConfig, cache_path |-> "", returned |-> <<>>]

NoArgs ==
    [porep_config |-> ConfigOfNodes(0), sector_key_cache_path |-> "",
     replica_cache_path |-> "", comm_sector_key |-> 0, comm_d_new |-> 0,
     comm_r_new |-> 0, comm_r_old |-> 0,
     piece_infos |-> [root |-> 0, well_formed |-> FALSE]]
NoCall == [op |-> "", args |-> NoArgs]

NoLoc ==
    [p_aux_bytes |-> [st |-> "missing", rec |-> NoPAux], p_aux |-> NoPAux,
     t_aux_bytes |-> [st |-> "missing", rec |-> NoTAux], t_aux |-> NoTAux,
     t_aux_cache |-> NoCache, t_aux_new |-> NoTAux,
     comm_c |-> NoDomain, comm_sector_key |-> NoDomain, comm_d_new |-> NoDomain,
     comm_r_old |-> NoDomain, comm_r_new |-> NoDomain,
     out |-> [comm_r |-> NoDomain, comm_r_last |-> NoDomain, comm_d |-> NoDomain]]

\* piece_infos, abstracted to the data root the pieces hash to.
PieceInfos ==
    {[root |-> r, well_formed |-> TRUE] : r \in {b \in Commitment : ValidDomainBytes(b)}}
    \cup {[root |-> 0, well_formed |-> FALSE]}

VARIABLES
    p_aux_files,   \* cache directory -> bytes of its p_aux file
    t_aux_files,   \* cache directory -> bytes of its t_aux file
    trees,         \* directory -> whether it holds the sector's tree stores
    data_files,    \* data path -> contents
    call,          \* the operation in progress and its arguments
    pc,            \* the step the operation is at
    loc,           \* its local variables
    ext,           \* the invocations of EmptySectorUpdate made by this call
    trace,         \* the steps this call has run, in order
    result,        \* what the call returned
    written,       \* files as the external routine of this call left them
    last           \* the previous completed call

fs == <<p_aux_files, t_aux_files, trees, data_files>>
vars == <<p_aux_files, t_aux_files, trees, data_files, call, pc, loc, ext, trace,
          result, written, last>>

\* ----------------------------------------------------- collaborators
\* TemporaryAux::set_cache_path: every store of the record is repointed.
set_cache_path(t, dir) ==
    [labels |-> dir,
     tree_d_config |-> [t.tree_d_config EXCEPT !.path = dir],
     tree_r_last_config |-> [t.tree_r_last_config EXCEPT !.path = dir],
     tree_c_config |-> [t.tree_c_config EXCEPT !.path = dir]]

HasTrees(tr, dir) == dir \in DOMAIN tr /\ tr[dir]

\* TemporaryAuxCache::new(&t_aux, replica_path): opens tree_c and tree_r_last
\* where the record's configurations point.
HydrateOk(tr, files, t, path) ==
    /\ HasTrees(tr, t.tree_c_config.path)
    /\ HasTrees(tr, t.tree_r_last_config.path)
    /\ files[path].kind # "absent"
Hydrated(t, path) == [t_aux |-> t, replica_path |-> path]

\* pieces::verify_pieces(&comm_d, piece_infos, sector_size)
verify_pieces(comm_d, piece_infos) ==
    IF ~piece_infos.well_formed THEN [ok |-> FALSE, val |-> FALSE]
    ELSE [ok |-> TRUE, val |-> piece_infos.root = comm_d]

Mask(comm_c, comm_sector_key, comm_d, h) ==
    [comm_c |-> comm_c.fr, comm_sector_key |-> comm_sector_key.fr,
     comm_d |-> comm_d.fr, h |-> h]

\* EmptySectorUpdate::encode_into: the replica it writes.
EncodeCanRun(files, e) ==
    /\ files[StagedDataPath].kind = "data"
    /\ files[SectorKeyPath].kind = "key"
    /\ files[StagedDataPath].len = e.nodes_count
    /\ files[SectorKeyPath].len = e.nodes_count
EncodedReplica(files, e, comm_d) ==
    ReplicaFile(files[StagedDataPath].d, e.nodes_count,
                Mask(e.comm_c, e.comm_sector_key, comm_d, e.h))

\* EmptySectorUpdate::decode_from: the data it writes.
DecodeCanRun(files, e) ==
    /\ files[ReplicaPath].kind # "absent"
    /\ files[SectorKeyPath].kind # "absent"
    /\ files[ReplicaPath].len = e.nodes_count
DecodedData(files, e) ==
    IF /\ files[ReplicaPath].kind = "replica"
       /\ files[SectorKeyPath].kind = "key"
       /\ files[SectorKeyPath].len = e.nodes_count
       /\ files[ReplicaPath].mask = Mask(e.comm_c, e.comm_sector_key, e.comm_d_new, e.h)
    THEN DataFile(files[ReplicaPath].d, e.nodes_count)
    ELSE GarbageFile(e.nodes_count)

\* EmptySectorUpdate::remove_encoded_data: checks the replica against the
\* data and the commitments before it writes the sector key.
RemoveCanRun(tr, files, e) ==
    /\ files[ReplicaPath].kind = "replica"
    /\ files[ReplicaPath].len = e.nodes_count
    /\ files[StagedDataPath].kind = "data"
    /\ files[StagedDataPath].d = files[ReplicaPath].d
    /\ files[ReplicaPath].mask = Mask(e.comm_c, e.comm_sector_key, e.comm_d_new, e.h)
    /\ HasTrees(tr, e.cache_path)

\* EmptySectorUpdate::prove_all_partitions: one proof per partition index.
ProveCanRun(tr, files, e) ==
    /\ files[ReplicaPath].kind = "replica"
    /\ HasTrees(tr, e.tree_d_new_config.path)
    /\ HasTrees(tr, e.tree_r_new_config.path)
    /\ HasTrees(tr, e.t_aux_cache.t_aux.tree_r_last_config.path)
PartitionProofs(e) == [i \in 1..e.partition_count |-> [k |-> i - 1]]

\* ------------------------------------------------------- the four operations
\* The steps of each operation, in source order.
EncodeIntoSteps ==
    <<"read_p_aux", "deserialize_p_aux", "read_t_aux", "deserialize_t_aux",
      "hydrate", "decode_commitments", "external", "check_nonzero", "verify_pieces">>
DecodeFromSteps ==
    <<"read_p_aux", "deserialize_p_aux", "decode_commitments", "external">>
RemoveEncodedDataSteps ==
    <<"read_p_aux", "deserialize_p_aux", "decode_commitments", "external">>
GenerateUpdateProofSteps ==
    <<"decode_commitments", "read_p_aux", "deserialize_p_aux", "read_t_aux",
      "deserialize_t_aux", "hydrate", "repoint", "external">>

StepsOf(op) ==
    CASE op = "encode_into" -> EncodeIntoSteps
      [] op = "decode_from" -> DecodeFromSteps
      [] op = "remove_encoded_data" -> RemoveEncodedDataSteps
      [] op = "generate_update_proof" -> GenerateUpdateProofSteps
      [] OTHER -> <<>>

IndexOf(seq, x) == CHOOSE i \in 1..Len(seq) : seq[i] = x

\* The step after `step`: the `?` operator passes control on only on success.
NextPc(op, step) ==
    LET steps == StepsOf(op)
        i == IndexOf(steps, step)
    IN IF i < Len(steps) THEN steps[i + 1] ELSE "done"

\* A step succeeded and the next one is due.
Continue(step) ==
    /\ pc' = NextPc(call.op, step)
    /\ trace' = Append(trace, step)
    /\ result' = result

\* Faulty variant: the error is recorded but the next step runs all the same.
FinishAndCarryOn(step, res) ==
    /\ pc' = NextPc(call.op, step)
    /\ trace' = Append(trace, step)
    /\ result' = res

\* A step ended the call: with an error, or with the value returned.
Finish(step, res) ==
    /\ pc' = "done"
    /\ trace' = Append(trace, step)
    /\ result' = res

\* Which cache directory an operation reads p_aux from.
PAuxDir(op, args) ==
    IF op = "remove_encoded_data" THEN args.replica_cache_path
    ELSE args.sector_key_cache_path

\* sector_key_cache_path.join(CacheKey::PAux.to_string()), or replica_cache_path
PAuxPath(op, args) == Join(PAuxDir(op, args), PAuxKey)
\* Faulty variant: t_aux is looked for in the replica's cache directory.
TAuxPathInReplicaCache(args) == Join(args.replica_cache_path, TAuxKey)

\* sector_key_cache_path.join(CacheKey::TAux.to_string())
TAuxPath(args) == Join(args.sector_key_cache_path, TAuxKey)

\* The deserialized t_aux as the operation keeps it: encode_into switches it
\* to the passed-in cache path, generate_update_proof keeps what the file says.
LoadedTAux(op, rec, cache_path) ==
    IF op = "encode_into" THEN set_cache_path(rec, cache_path) ELSE rec

\* Faulty variant: comm_sector_key is handed on without being decoded first.
CommitmentsToDecodeWithoutSectorKey(op, args, l) ==
    IF op = "generate_update_proof"
    THEN <<args.comm_r_old, args.comm_r_new, args.comm_d_new>>
    ELSE <<into_bytes(l.p_aux.comm_c)>>

\* The raw commitments an operation passes through try_from_bytes, in order.
CommitmentsToDecode(op, args, l) ==
    IF op = "generate_update_proof"
    THEN <<args.comm_r_old, args.comm_r_new, args.comm_d_new>>
    ELSE <<into_bytes(l.p_aux.comm_c), args.comm_sector_key>>

\* The locals after the commitments are decoded.
DecodedLocals(op, args, l) ==
    IF op = "generate_update_proof"
    THEN [l EXCEPT !.comm_r_old = try_from_bytes(args.comm_r_old).val,
                   !.comm_r_new = try_from_bytes(args.comm_r_new).val,
                   !.comm_d_new = try_from_bytes(args.comm_d_new).val]
    ELSE IF op = "encode_into"
    THEN [l EXCEPT !.comm_c = try_from_bytes(into_bytes(l.p_aux.comm_c)).val,
                   !.comm_sector_key = try_from_bytes(args.comm_sector_key).val]
    ELSE [l EXCEPT !.comm_c = try_from_bytes(into_bytes(l.p_aux.comm_c)).val,
                   !.comm_d_new = from_commitment(args.comm_d_new),
                   !.comm_sector_key = try_from_bytes(args.comm_sector_key).val]

\* Faulty variant: t_aux_old itself is repointed, and the new view aliases it.
RepointedInPlace(l, replica_cache_path) ==
    [l EXCEPT !.t_aux = set_cache_path(l.t_aux, replica_cache_path),
              !.t_aux_new = set_cache_path(l.t_aux, replica_cache_path)]

\* The locals after the new view is made: a clone of t_aux_old, repointed.
Repointed(l, replica_cache_path) ==
    [l EXCEPT !.t_aux_new = set_cache_path(l.t_aux, replica_cache_path)]

\* Faulty variant: one partition too many is asked for.
PartitionCountArgOffByOne(cfg) == PartitionsOf(cfg) + 1

\* The partition count handed to prove_all_partitions.
PartitionCountArg(cfg) == PartitionsOf(cfg)

\* Faulty variant: the third ensure! is left out.
NonZeroCommitmentsWithoutRLast(comm_d, comm_r, comm_r_last) ==
    comm_d # 0 /\ comm_r # 0

\* ensure!(comm != [0; 32]) for the three commitments.
NonZeroCommitments(comm_d, comm_r, comm_r_last) ==
    comm_d # 0 /\ comm_r # 0 /\ comm_r_last # 0

\* Faulty variant: the boolean verify_pieces returns is dropped.
PieceCheckIgnoringVerdict(comm_d, piece_infos) ==
    IF ~verify_pieces(comm_d, piece_infos).ok THEN "PieceError" ELSE ""

\* ensure!(verify_pieces(..)?, "pieces and comm_d do not match"): the error
\* it ends the call with, or "" when the pieces match.
PieceCheck(comm_d, piece_infos) ==
    LET v == verify_pieces(comm_d, piece_infos)
    IN IF ~v.ok THEN "PieceError"
       ELSE IF ~v.val THEN "PieceMismatchError"
       ELSE ""

\* What each operation hands its EmptySectorUpdate routine.
EncodeIntoArgs(args, l) ==
    [NoExt EXCEPT !.routine = "encode_into",
                  !.nodes_count = NodesCount(args.porep_config),
                  !.t_aux_cache = l.t_aux_cache,
                  !.comm_c = l.comm_c,
                  !.comm_sector_key = l.comm_sector_key,
                  !.cache_path = args.replica_cache_path,
                  !.h = HSelectOf(args.porep_config)]
\* Faulty variant: decode_from hands over comm_r_last where comm_c is due.
DecodeFromArgsWithCommRLast(args, l) ==
    [NoExt EXCEPT !.routine = "decode_from",
                  !.nodes_count = NodesCount(args.porep_config),
                  !.comm_c = l.p_aux.comm_r_last,
                  !.comm_d_new = l.comm_d_new,
                  !.comm_sector_key = l.comm_sector_key,
                  !.cache_path = args.sector_key_cache_path,
                  !.h = HSelectOf(args.porep_config)]

DecodeFromArgs(args, l) ==
    [NoExt EXCEPT !.routine = "decode_from",
                  !.nodes_count = NodesCount(args.porep_config),
                  !.comm_c = l.comm_c,
                  !.comm_d_new = l.comm_d_new,
                  !.comm_sector_key = l.comm_sector_key,
                  !.cache_path = args.sector_key_cache_path,
                  !.h = HSelectOf(args.porep_config)]
RemoveEncodedDataArgs(args, l) ==
    [NoExt EXCEPT !.routine = "remove_encoded_data",
                  !.nodes_count = NodesCount(args.porep_config),
                  !.comm_c = l.comm_c,
                  !.comm_d_new = l.comm_d_new,
                  !.comm_sector_key = l.comm_sector_key,
                  !.cache_path = args.replica_cache_path,
                  !.h = HSelectOf(args.porep_config)]
ProveArgs(args, l) ==
    [NoExt EXCEPT !.routine = "prove_all_partitions",
                  !.k = PartitionsOf(args.porep_config),
                  !.comm_c = l.p_aux.comm_c,
                  !.comm_r_old = l.comm_r_old,
                  !.comm_d_new = l.comm_d_new,
                  !.comm_r_new = l.comm_r_new,
                  !.h = HSelectOf(args.porep_config),
                  !.t_aux_cache = l.t_aux_cache,
                  !.tree_d_new_config = l.t_aux_new.tree_d_config,
                  !.tree_r_new_config = l.t_aux_new.tree_r_last_config,
                  !.partition_count = PartitionCountArg(args.porep_config)]

NoWritten == [set |-> FALSE, data_files |-> [p \in DataPaths |-> NoFile],
              trees |-> [d \in AllDirs |-> FALSE]]
NoLast == [op |-> "", args |-> NoArgs, result |-> NoResult, ext |-> NoExt,
           staged |-> NoFile]

\* ------------------------------------------------------------------ calls
Begin(op, args) ==
    /\ call' = [op |-> op, args |-> args]
    /\ pc' = StepsOf(op)[1]
    /\ loc' = NoLoc
    /\ ext' = <<>>
    /\ trace' = <<>>
    /\ result' = NoResult
    /\ written' = NoWritten
    /\ UNCHANGED <<p_aux_files, t_aux_files, trees, data_files, last>>

\* Values for a parameter the operation never reads: one that is a domain
\* element and one that is not.
UnusedCommitment == {1, MaxCommitment}

CallEncodeInto ==
    /\ pc = "idle"
    /\ \E cfg \in PoRepConfig, sk \in Commitment, pi \in PieceInfos :
           Begin("encode_into",
                 [NoArgs EXCEPT !.porep_config = cfg,
                                !.sector_key_cache_path = SectorKeyCacheDir,
                                !.replica_cache_path = ReplicaCacheDir,
                                !.piece_infos = pi,
                                !.comm_sector_key = sk])

CallDecodeFrom ==
    /\ pc = "idle"
    /\ \E cfg \in PoRepConfig, cd \in Commitment, cr \in UnusedCommitment, sk \in Commitment :
           Begin("decode_from",
                 [NoArgs EXCEPT !.porep_config = cfg,
                                !.sector_key_cache_path = SectorKeyCacheDir,
                                !.comm_d_new = cd,
                                !.comm_r_new = cr,
                                !.comm_sector_key = sk])

CallRemoveEncodedData ==
    /\ pc = "idle"
    /\ \E cfg \in PoRepConfig, cd \in Commitment, cr \in UnusedCommitment, sk \in Commitment :
           Begin("remove_encoded_data",
                 [NoArgs EXCEPT !.porep_config = cfg,
                                !.sector_key_cache_path = SectorKeyCacheDir,
                                !.replica_cache_path = ReplicaCacheDir,
                                !.comm_d_new = cd,
                                !.comm_r_old = cr,
                                !.comm_sector_key = sk])

CallGenerateUpdateProof ==
    /\ pc = "idle"
    /\ \E cfg \in PoRepConfig, cro \in Commitment, crn \in Commitment, cd \in Commitment :
           Begin("generate_update_proof",
                 [NoArgs EXCEPT !.porep_config = cfg,
                                !.sector_key_cache_path = SectorKeyCacheDir,
                                !.replica_cache_path = ReplicaCacheDir,
                                !.comm_r_old = cro,
                                !.comm_r_new = crn,
                                !.comm_d_new = cd])

\* ------------------------------------------------------------------ steps
\* fs::read(&p_aux_path).with_context(..)?
ReadPAux ==
    /\ pc = "read_p_aux"
    /\ LET p_aux_path == PAuxPath(call.op, call.args)
           bytes == p_aux_files[p_aux_path.dir]
       IN IF bytes.st = "missing"
          THEN /\ Finish("read_p_aux", Err("IoError", p_aux_path))
               /\ loc' = loc
          ELSE /\ Continue("read_p_aux")
               /\ loc' = [loc EXCEPT !.p_aux_bytes = bytes]
    /\ UNCHANGED <<p_aux_files, t_aux_files, trees, data_files, call, ext, written, last>>

\* deserialize(&p_aux_bytes)?
DeserializePAux ==
    /\ pc = "deserialize_p_aux"
    /\ IF loc.p_aux_bytes.st # "ok"
       THEN /\ Finish("deserialize_p_aux", Err("DeserializeError", NoPath))
            /\ loc' = loc
       ELSE /\ Continue("deserialize_p_aux")
            /\ loc' = [loc EXCEPT !.p_aux = loc.p_aux_bytes.rec]
    /\ UNCHANGED <<p_aux_files, t_aux_files, trees, data_files, call, ext, written, last>>

\* fs::read(&t_aux_path).with_context(..)?
ReadTAux ==
    /\ pc = "read_t_aux"
    /\ LET t_aux_path == TAuxPath(call.args)
           bytes == t_aux_files[t_aux_path.dir]
       IN IF bytes.st = "missing"
          THEN /\ Finish("read_t_aux", Err("IoError", t_aux_path))
               /\ loc' = loc
          ELSE /\ Continue("read_t_aux")
               /\ loc' = [loc EXCEPT !.t_aux_bytes = bytes]
    /\ UNCHANGED <<p_aux_files, t_aux_files, trees, data_files, call, ext, written, last>>

\* deserialize(&t_aux_bytes)?, and what the operation does to the record.
DeserializeTAux ==
    /\ pc = "deserialize_t_aux"
    /\ IF loc.t_aux_bytes.st # "ok"
       THEN /\ Finish("deserialize_t_aux", Err("DeserializeError", NoPath))
            /\ loc' = loc
       ELSE /\ Continue("deserialize_t_aux")
            /\ loc' = [loc EXCEPT !.t_aux =
                         LoadedTAux(call.op, loc.t_aux_bytes.rec,
                                    call.args.sector_key_cache_path)]
    /\ UNCHANGED <<p_aux_files, t_aux_files, trees, data_files, call, ext, written, last>>

\* TemporaryAuxCache::new(&t_aux, sector_key_path.to_path_buf()).context(..)?
Hydrate ==
    /\ pc = "hydrate"
    /\ IF ~HydrateOk(trees, data_files, loc.t_aux, SectorKeyPath)
       THEN /\ Finish("hydrate", Err("HydrationError", NoPath))
            /\ loc' = loc
       ELSE /\ Continue("hydrate")
            /\ loc' = [loc EXCEPT !.t_aux_cache = Hydrated(loc.t_aux, SectorKeyPath)]
    /\ UNCHANGED <<p_aux_files, t_aux_files, trees, data_files, call, ext, written, last>>

\* The try_from_bytes(..)? of the operation: the first failure ends the call.
DecodeCommitments ==
    /\ pc = "decode_commitments"
    /\ LET raw == CommitmentsToDecode(call.op, call.args, loc)
       IN IF \E i \in 1..Len(raw) : ~try_from_bytes(raw[i]).ok
          THEN /\ Finish("decode_commitments", Err("InvalidCommitment", NoPath))
               /\ loc' = loc
          ELSE /\ Continue("decode_commitments")
               /\ loc' = DecodedLocals(call.op, call.args, loc)
    /\ UNCHANGED <<p_aux_files, t_aux_files, trees, data_files, call, ext, written, last>>

\* let mut t_aux_new = t_aux_old.clone(); t_aux_new.set_cache_path(replica_cache_path);
Repoint ==
    /\ pc = "repoint"
    /\ Continue("repoint")
    /\ loc' = Repointed(loc, call.args.replica_cache_path)
    /\ UNCHANGED <<p_aux_files, t_aux_files, trees, data_files, call, ext, written, last>>

Snapshot(files, tr) == [set |-> TRUE, data_files |-> files, trees |-> tr]

\* EmptySectorUpdate::encode_into(..)?: writes the replica and its cache and
\* yields three domain values, whatever they are.
ExternalEncode ==
    /\ pc = "external" /\ call.op = "encode_into"
    /\ LET e == EncodeIntoArgs(call.args, loc)
       IN IF ~EncodeCanRun(data_files, e)
          THEN /\ Finish("external", Err("SchemeError", NoPath))
               /\ ext' = Append(ext, e)
               /\ UNCHANGED <<loc, data_files, trees, written>>
          ELSE \E cr \in Domain, crl \in Domain, cd \in Domain :
               /\ Continue("external")
               /\ ext' = Append(ext, [e EXCEPT !.returned = <<cr, crl, cd>>])
               /\ loc' = [loc EXCEPT !.out = [comm_r |-> cr, comm_r_last |-> crl,
                                              comm_d |-> cd]]
               /\ data_files' = [data_files EXCEPT ![ReplicaPath] =
                                    EncodedReplica(data_files, e, cd)]
               /\ trees' = [trees EXCEPT ![e.cache_path] = TRUE]
               /\ written' = Snapshot(data_files', trees')
    /\ UNCHANGED <<p_aux_files, t_aux_files, call, last>>

\* EmptySectorUpdate::decode_from(..)?; Ok(())
ExternalDecode ==
    /\ pc = "external" /\ call.op = "decode_from"
    /\ LET e == DecodeFromArgs(call.args, loc)
       IN /\ ext' = Append(ext, e)
          /\ IF ~DecodeCanRun(data_files, e)
             THEN /\ Finish("external", Err("SchemeError", NoPath))
                  /\ UNCHANGED <<data_files, written>>
             ELSE /\ Finish("external", Ok(NoComms, <<>>))
                  /\ data_files' = [data_files EXCEPT ![OutDataPath] =
                                       DecodedData(data_files, e)]
                  /\ written' = Snapshot(data_files', trees)
    /\ UNCHANGED <<p_aux_files, t_aux_files, trees, call, loc, last>>

\* EmptySectorUpdate::remove_encoded_data(..)?; Ok(())
ExternalRemove ==
    /\ pc = "external" /\ call.op = "remove_encoded_data"
    /\ LET e == RemoveEncodedDataArgs(call.args, loc)
       IN /\ ext' = Append(ext, e)
          /\ IF ~RemoveCanRun(trees, data_files, e)
             THEN /\ Finish("external", Err("SchemeError", NoPath))
                  /\ UNCHANGED <<data_files, written>>
             ELSE /\ Finish("external", Ok(NoComms, <<>>))
                  /\ data_files' = [data_files EXCEPT ![SectorKeyPath] =
                                       KeyFile(e.nodes_count)]
                  /\ written' = Snapshot(data_files', trees)
    /\ UNCHANGED <<p_aux_files, t_aux_files, trees, call, loc, last>>

\* EmptySectorUpdate::prove_all_partitions(..)?; Ok(vanilla_update_proof)
ExternalProve ==
    /\ pc = "external" /\ call.op = "generate_update_proof"
    /\ LET e == ProveArgs(call.args, loc)
       IN IF ~ProveCanRun(trees, data_files, e)
          THEN /\ Finish("external", Err("SchemeError", NoPath))
               /\ ext' = Append(ext, e)
          ELSE /\ Finish("external", Ok(NoComms, PartitionProofs(e)))
               /\ ext' = Append(ext, [e EXCEPT !.returned = PartitionProofs(e)])
    /\ UNCHANGED <<p_aux_files, t_aux_files, trees, data_files, call, loc, written, last>>

\* Faulty variant: a failed all-zero check removes the replica just written.
CheckNonZeroWithRollback ==
    /\ pc = "check_nonzero"
    /\ LET comm_d == into_bytes(loc.out.comm_d)
           comm_r == into_bytes(loc.out.comm_r)
           comm_r_last == into_bytes(loc.out.comm_r_last)
       IN IF ~NonZeroCommitments(comm_d, comm_r, comm_r_last)
          THEN /\ Finish("check_nonzero", Err("IntegrityError", NoPath))
               /\ data_files' = [data_files EXCEPT ![ReplicaPath] = NoFile]
          ELSE /\ Continue("check_nonzero")
               /\ data_files' = data_files
    /\ UNCHANGED <<p_aux_files, t_aux_files, trees, call, loc, ext, written, last>>

\* write_bytes of the three values, then the all-zero checks.
CheckNonZero ==
    /\ pc = "check_nonzero"
    /\ LET comm_d == into_bytes(loc.out.comm_d)
           comm_r == into_bytes(loc.out.comm_r)
           comm_r_last == into_bytes(loc.out.comm_r_last)
       IN IF ~NonZeroCommitments(comm_d, comm_r, comm_r_last)
          THEN Finish("check_nonzero", Err("IntegrityError", NoPath))
          ELSE Continue("check_nonzero")
    /\ UNCHANGED <<p_aux_files, t_aux_files, trees, data_files, call, loc, ext,
                   written, last>>

\* The piece check, then Ok((comm_r, comm_r_last, comm_d)).
VerifyPieces ==
    /\ pc = "verify_pieces"
    /\ LET comm_d == into_bytes(loc.out.comm_d)
           comm_r == into_bytes(loc.out.comm_r)
           comm_r_last == into_bytes(loc.out.comm_r_last)
       IN IF PieceCheck(comm_d, call.args.piece_infos) # ""
          THEN Finish("verify_pieces",
                      Err(PieceCheck(comm_d, call.args.piece_infos), NoPath))
          ELSE Finish("verify_pieces",
                      Ok([comm_r |-> comm_r, comm_r_last |-> comm_r_last,
                          comm_d |-> comm_d], <<>>))
    /\ UNCHANGED <<p_aux_files, t_aux_files, trees, data_files, call, loc, ext,
                   written, last>>

\* What the caller keeps of a completed call: of a successful encode_into its
\* arguments, the triple it returned, what it handed the external routine and
\* the staged data it encoded; of any other call nothing.
Completed ==
    IF call.op = "encode_into" /\ result.status = "ok"
    THEN [op |-> call.op, args |-> call.args, result |-> result, ext |-> ext[1],
          staged |-> data_files[StagedDataPath]]
    ELSE NoLast

\* The call is over; the caller may make the next one.
Return ==
    /\ pc = "done"
    /\ pc' = "idle"
    /\ last' = Completed
    /\ call' = NoCall
    /\ loc' = NoLoc
    /\ ext' = <<>>
    /\ trace' = <<>>
    /\ result' = NoResult
    /\ written' = NoWritten
    /\ UNCHANGED <<p_aux_files, t_aux_files, trees, data_files>>

\* ---------------------------------------------------------- specifications
InitCall ==
    /\ call = NoCall
    /\ pc = "idle"
    /\ loc = NoLoc
    /\ ext = <<>>
    /\ trace = <<>>
    /\ result = NoResult
    /\ written = NoWritten
    /\ last = NoLast

\* The sector on disk fills MaxNodes nodes.
SectorNodes == MaxNodes

\* p_aux records as sealing wrote them (comm_r_last plays no part here).
SealedPAux == {r \in PersistentAux : r.comm_r_last = NoDomain}
InitPAuxFiles ==
    {[st |-> "missing", rec |-> NoPAux], [st |-> "corrupt", rec |-> NoPAux]}
    \cup {[st |-> "ok", rec |-> r] : r \in SealedPAux}

\* A replica an earlier update may have left: encoded from the staged data
\* under comm_sector_key = comm_d = 1 and some comm_c.
InitReplicas ==
    {NoFile} \cup
    {ReplicaFile(1, SectorNodes,
                 Mask(c, [fr |-> 1], [fr |-> 1], HSelectOf(ConfigOfNodes(SectorNodes)))) :
        c \in Domain}

InitDataFiles(replica) ==
    [p \in DataPaths |->
        CASE p = StagedDataPath -> DataFile(1, SectorNodes)
          [] p = SectorKeyPath -> KeyFile(SectorNodes)
          [] p = ReplicaPath -> replica
          [] OTHER -> NoFile]

\* A sector on disk, in any state a caller may present it in.
Init ==
    /\ InitCall
    /\ p_aux_files \in [CacheDirs -> InitPAuxFiles]
    /\ p_aux_files[ReplicaCacheDir].st # "corrupt"
    /\ p_aux_files[ReplicaCacheDir].rec.comm_c = NoDomain
    /\ t_aux_files \in [CacheDirs -> TAuxFiles]
    /\ t_aux_files[ReplicaCacheDir].st = "missing"
    /\ t_aux_files[SectorKeyCacheDir].rec.labels # ReplicaCacheDir
    /\ \E replica \in InitReplicas :
        /\ data_files = InitDataFiles(replica)
        /\ trees \in [AllDirs -> BOOLEAN]
        /\ trees[ReplicaCacheDir] = (replica # NoFile)

Step ==
    \/ ReadPAux
    \/ DeserializePAux
    \/ ReadTAux
    \/ DeserializeTAux
    \/ Hydrate
    \/ DecodeCommitments
    \/ Repoint
    \/ ExternalEncode
    \/ ExternalDecode
    \/ ExternalRemove
    \/ ExternalProve
    \/ CheckNonZero
    \/ VerifyPieces

Next ==
    \/ CallEncodeInto
    \/ CallDecodeFrom
    \/ CallRemoveEncodedData
    \/ CallGenerateUpdateProof
    \/ Step

\* One call against any sector.
Spec == Init /\ [][Next]_vars

\* A freshly sealed sector key with its aux pair in place, data staged and no
\* replica yet.
InitSealed ==
    /\ InitCall
    /\ \E r \in SealedPAux :
          p_aux_files = [d \in CacheDirs |->
                            IF d = SectorKeyCacheDir THEN [st |-> "ok", rec |-> r]
                            ELSE [st |-> "missing", rec |-> NoPAux]]
    /\ t_aux_files = [d \in CacheDirs |->
                         IF d = SectorKeyCacheDir
                         THEN [st |-> "ok", rec |-> TemporaryAuxAt(SectorKeyCacheDir)]
                         ELSE [st |-> "missing", rec |-> NoTAux]]
    /\ trees = [d \in AllDirs |-> d = SectorKeyCacheDir]
    /\ data_files = InitDataFiles(NoFile)

NextUpdate ==
    \/ CallEncodeInto
    \/ CallDecodeFrom
    \/ ReadPAux
    \/ DeserializePAux
    \/ ReadTAux
    \/ DeserializeTAux
    \/ Hydrate
    \/ DecodeCommitments
    \/ ExternalEncode
    \/ ExternalDecode
    \/ CheckNonZero
    \/ VerifyPieces
    \/ Return

\* Any sequence of encode_into and decode_from calls on a sealed sector.
SpecUpdate == InitSealed /\ [][NextUpdate]_vars

\* ------------------------------------------------------------------ claims
Ran(step) == \E i \in 1..Len(trace) : trace[i] = step
Done(op) == pc = "done" /\ call.op = op
\* The triple the external encode routine produced in this call, as bytes.
Produced == [i \in 1..Len(ext[1].returned) |-> into_bytes(ext[1].returned[i])]
EncodeProduced == call.op = "encode_into" /\ ext # <<>> /\ Len(ext[1].returned) = 3

\* C1: a successful encode_into returns no all-zero commitment, and when the
\* external encode routine yields an all-zero comm_r, comm_r_last or comm_d
\* the call ends with an error and no triple.
C1_NoZeroCommitmentReturned ==
    Done("encode_into") =>
        /\ result.status = "ok" =>
              /\ result.comms.comm_r # 0
              /\ result.comms.comm_r_last # 0
              /\ result.comms.comm_d # 0
        /\ (EncodeProduced /\ \E i \in 1..3 : Produced[i] = 0) =>
              result.status = "err" /\ result.comms = NoComms

C1_Witness ==
    /\ Done("encode_into")
    /\ result.status = "ok"
    /\ EncodeProduced
    /\ result.comms = [comm_r |-> Produced[1], comm_r_last |-> Produced[2],
                       comm_d |-> Produced[3]]

\* C2: when verify_pieces reports that piece_infos do not reproduce the
\* comm_d the external encode routine returned, encode_into ends with the
\* piece-mismatch error and no commitment; a successful encode_into means
\* verify_pieces returned true for the returned comm_d and piece_infos.
C2_PieceMismatchRejected ==
    Done("encode_into") =>
        /\ (Ran("verify_pieces")
            /\ verify_pieces(Produced[3], call.args.piece_infos).ok
            /\ ~verify_pieces(Produced[3], call.args.piece_infos).val) =>
              /\ result.status = "err"
              /\ result.kind = "PieceMismatchError"
              /\ result.comms = NoComms
        /\ result.status = "ok" =>
              /\ result.comms.comm_d = Produced[3]
              /\ verify_pieces(result.comms.comm_d, call.args.piece_infos).ok
              /\ verify_pieces(result.comms.comm_d, call.args.piece_infos).val

C2_Witness ==
    /\ Done("encode_into")
    /\ Ran("verify_pieces")
    /\ result.kind = "PieceMismatchError"
    /\ call.args.piece_infos.well_formed
    /\ call.args.piece_infos.root # Produced[3]

\* Every raw commitment the caller passes to an operation.
CallerCommitments(op, args) ==
    CASE op = "encode_into" -> {args.comm_sector_key}
      [] op = "decode_from" -> {args.comm_d_new, args.comm_r_new, args.comm_sector_key}
      [] op = "remove_encoded_data" ->
            {args.comm_d_new, args.comm_r_old, args.comm_sector_key}
      [] op = "generate_update_proof" ->
            {args.comm_r_old, args.comm_r_new, args.comm_d_new}
      [] OTHER -> {}

\* Those of them the operation passes through try_from_bytes.
ValidatedCommitments(op, args) ==
    CASE op = "generate_update_proof" ->
            {args.comm_r_old, args.comm_r_new, args.comm_d_new}
      [] op \in {"encode_into", "decode_from", "remove_encoded_data"} ->
            {args.comm_sector_key}
      [] OTHER -> {}

CacheDirOf(t) ==
    IF /\ t.tree_d_config.path = t.labels
       /\ t.tree_r_last_config.path = t.labels
       /\ t.tree_c_config.path = t.labels
    THEN t.labels ELSE "mixed"

\* C4: a TemporaryAux loaded from a cache directory points at that directory
\* when it is hydrated, in encode_into and in generate_update_proof, whatever
\* directory its t_aux file records.
C4_LoadedTAuxPointsAtCacheDir ==
    (pc = "hydrate" \/ Ran("hydrate")) =>
        CacheDirOf(loc.t_aux) = call.args.sector_key_cache_path

\* C5: a successful generate_update_proof returns the list prove_all_partitions
\* produced for the configured partition count P, unchanged: P proofs, the
\* i-th for partition index i - 1.
C5_ProofsReturnedUnmodified ==
    (Done("generate_update_proof") /\ result.status = "ok") =>
        /\ Len(ext) = 1
        /\ ext[1].partition_count = PartitionsOf(call.args.porep_config)
        /\ result.proofs = ext[1].returned
        /\ Len(result.proofs) = PartitionsOf(call.args.porep_config)
        /\ \A i \in 1..Len(result.proofs) : result.proofs[i].k = i - 1

C5_Witness ==
    /\ Done("generate_update_proof")
    /\ result.status = "ok"
    /\ Len(result.proofs) = MaxNodes

OnlyTAuxMissing ==
    /\ call.op \in {"encode_into", "generate_update_proof"}
    /\ p_aux_files[call.args.sector_key_cache_path].st = "ok"
    /\ t_aux_files[call.args.sector_key_cache_path].st = "missing"
TAuxIoError == Err("IoError", Join(call.args.sector_key_cache_path, TAuxKey))

\* C6 as stated: with p_aux valid and t_aux missing, encode_into and
\* generate_update_proof end with an I/O error naming t_aux in that directory
\* and never invoke the external routine.
C6_MissingTAuxIsIoError ==
    OnlyTAuxMissing =>
        /\ ext = <<>>
        /\ pc = "done" => result = TAuxIoError

\* C6, amended: with p_aux valid and t_aux missing, encode_into and
\* generate_update_proof fail without invoking the external routine; the
\* error is the I/O error naming t_aux in that directory, except that
\* generate_update_proof, which decodes its three commitments before it reads
\* any file, ends with the invalid-commitment error when one of them is no
\* domain element.
C6_MissingTAuxFails ==
    OnlyTAuxMissing =>
        /\ ext = <<>>
        /\ pc = "done" =>
              IF /\ call.op = "generate_update_proof"
                 /\ \E b \in CallerCommitments(call.op, call.args) : ~ValidDomainBytes(b)
              THEN result = Err("InvalidCommitment", NoPath)
              ELSE result = TAuxIoError

C6_Witness ==
    /\ OnlyTAuxMissing
    /\ pc = "done"
    /\ call.op = "generate_update_proof"
    /\ result = TAuxIoError

\* C7: in generate_update_proof the repointing is applied to a copy.  The old
\* TemporaryAux, and the cache hydrated from it, keep the directory and the
\* configurations deserialized from t_aux; the new view points at
\* replica_cache_path, its tree_d and tree_r_last configurations differ from
\* the old ones in the directory only, and they are the new tree
\* configurations of the private inputs.
C7_RepointOnACopy ==
    (call.op = "generate_update_proof" /\ Ran("repoint")) =>
        /\ loc.t_aux = loc.t_aux_bytes.rec
        /\ loc.t_aux_cache.t_aux = loc.t_aux_bytes.rec
        /\ CacheDirOf(loc.t_aux_new) = call.args.replica_cache_path
        /\ [loc.t_aux_new.tree_d_config EXCEPT !.path = loc.t_aux.tree_d_config.path]
              = loc.t_aux.tree_d_config
        /\ [loc.t_aux_new.tree_r_last_config
                EXCEPT !.path = loc.t_aux.tree_r_last_config.path]
              = loc.t_aux.tree_r_last_config
        /\ ext # <<>> =>
              /\ ext[1].tree_d_new_config = loc.t_aux_new.tree_d_config
              /\ ext[1].tree_r_new_config = loc.t_aux_new.tree_r_last_config
              /\ ext[1].t_aux_cache.t_aux = loc.t_aux_bytes.rec

C7_Witness ==
    /\ call.op = "generate_update_proof"
    /\ ext # <<>>
    /\ CacheDirOf(loc.t_aux) = SealedDir
    /\ ext[1].tree_d_new_config.path = ReplicaCacheDir
    /\ ext[1].t_aux_cache.t_aux.tree_r_last_config.path = SealedDir

LoadErrors == {"IoError", "DeserializeError", "HydrationError", "InvalidCommitment"}

\* C9: no step of a call runs twice, a failure ends the call at once, the
\* external routine is invoked at most once per call, never after a failed
\* load or decoding, and only when p_aux (and, where the operation loads it,
\* t_aux and its hydration) and the decodings of that operation succeeded.
C9_FailFastNoRetry ==
    /\ \A i, j \in 1..Len(trace) : i # j => trace[i] # trace[j]
    /\ Len(ext) <= 1
    /\ result.status = "err" => pc = "done"
    /\ (result.status = "err" /\ result.kind \in LoadErrors) => ext = <<>>
    /\ ext # <<>> =>
          /\ p_aux_files[PAuxDir(call.op, call.args)].st = "ok"
          /\ loc.p_aux = p_aux_files[PAuxDir(call.op, call.args)].rec
          /\ \A b \in ValidatedCommitments(call.op, call.args) : ValidDomainBytes(b)
          /\ call.op \in {"encode_into", "generate_update_proof"} =>
                /\ t_aux_files[call.args.sector_key_cache_path].st = "ok"
                /\ loc.t_aux_cache = Hydrated(loc.t_aux, SectorKeyPath)
                /\ HasTrees(trees, loc.t_aux.tree_c_config.path)
                /\ HasTrees(trees, loc.t_aux.tree_r_last_config.path)

C9_Witness ==
    /\ Done("generate_update_proof")
    /\ result = Err("HydrationError", NoPath)
    /\ trace = <<"decode_commitments", "read_p_aux", "deserialize_p_aux",
                 "read_t_aux", "deserialize_t_aux", "hydrate">>
    /\ ext = <<>>

\* C10: when the external encode routine has written the replica and its
\* cache and encode_into then fails the all-zero check or the piece check, the
\* call returns the error and the files stay exactly as the routine wrote them.
C10_NoRollbackAfterEncode ==
    (Done("encode_into")
     /\ result.kind \in {"IntegrityError", "PieceMismatchError", "PieceError"}) =>
        /\ result.status = "err"
        /\ written.set
        /\ data_files = written.data_files
        /\ trees = written.trees
        /\ data_files[ReplicaPath] =
              EncodedReplica(data_files, ext[1], ext[1].returned[3])
        /\ trees[call.args.replica_cache_path]

C10_Witness ==
    /\ Done("encode_into")
    /\ result.kind = "IntegrityError"
    /\ written.set
    /\ data_files[ReplicaPath].kind = "replica"
    /\ data_files[ReplicaPath].mask.comm_d = Produced[3]

\* decode_from is called right after a successful encode_into, with the same
\* configuration and comm_sector_key and the comm_d and comm_r it returned.
DecodesLastEncode ==
    /\ call.op = "decode_from"
    /\ last.op = "encode_into"
    /\ last.result.status = "ok"
    /\ call.args.porep_config = last.args.porep_config
    /\ call.args.sector_key_cache_path = last.args.sector_key_cache_path
    /\ call.args.comm_sector_key = last.args.comm_sector_key
    /\ call.args.comm_d_new = last.result.comms.comm_d
    /\ call.args.comm_r_new = last.result.comms.comm_r

\* C8: a successful decode_from right after a successful encode_into, with
\* the same sector-key paths and comm_sector_key and the comm_d and comm_r
\* encode_into returned, leaves the staged data at out_data_path; both calls
\* hand the external scheme the same comm_c, comm_sector_key, node count and h.
C8_EncodeDecodeRoundTrip ==
    (DecodesLastEncode /\ pc = "done" /\ result.status = "ok") =>
        /\ data_files[OutDataPath] = last.staged
        /\ data_files[OutDataPath] = data_files[StagedDataPath]
        /\ ext[1].comm_c = last.ext.comm_c
        /\ ext[1].comm_sector_key = last.ext.comm_sector_key
        /\ ext[1].nodes_count = last.ext.nodes_count
        /\ ext[1].h = last.ext.h

C8_Witness ==
    /\ DecodesLastEncode
    /\ pc = "done"
    /\ result.status = "ok"
    /\ data_files[OutDataPath] = DataFile(1, SectorNodes)
    /\ last.ext.comm_c = [fr |-> 1]

====
